---------------------------- MODULE Spec2Model ----------------------------
(***************************************************************************)
(* Model of observer-operator.py, the tenant observer operator: quantity   *)
(* parsing, per-namespace accumulation, health scoring, the in-place       *)
(* metrics registry, the TenantInfo reconciliation and the two threads     *)
(* (kopf event handler, HTTP server) that run aggregate().                 *)
(*                                                                         *)
(* Representation of values:                                               *)
(*   - a Python str is a sequence of one-character strings;                *)
(*   - a CPU Decimal is an integer number of millicores (Decimal(body) /   *)
(*     1000 cores is exactly body millicores);                             *)
(*   - a memory Decimal is an integer number of bytes;                     *)
(*   - a float percentage or score is an exact rational [n, d], d > 0,     *)
(*     in lowest terms (binary rounding of floats is not modelled).        *)
(***************************************************************************)
EXTENDS Integers, Sequences, FiniteSets, TLC

VARIABLES
    \* ---- quantity codec harness (parse_cpu / parse_memory) ----
    qstr,        \* the quantity string handed to the parser
    qpc,         \* "start" | "cpu" | "mem": which parser has run
    qres,        \* its outcome: [raised, value]
    \* ---- accumulation harness (get_namespace_usage / gather) ----
    gpc,         \* "start" | "fold" | "done"
    gfail,       \* which reads of the namespace folded last have failed
    gusage,      \* usage returned by get_namespace_usage for that namespace
    gtotal,      \* gather's running total
    gcount,      \* namespaces folded so far
    gresult,     \* gather's return value once gpc = "done"
    gnamespaces, \* order harness: the usages of the tenant's namespaces, in listing order
    \* ---- the operator process ----
    pc,          \* per thread: position inside aggregate()
    data,        \* per thread: the list of gather results of its pass
    idx,         \* per thread: loop index inside update_metrics / sync
    gauges,      \* metrics.gauges: insertion-ordered dict as a sequence
    store,       \* the TenantInfo records of the cluster, by record name
    scraped,     \* body of the GET /metrics response being sent, if any
    returned,    \* <<value>> of the aggregate() call that has just returned, if any
    writes,      \* reconciliation harness: write calls issued in the run, by record
    failed,      \* reconciliation harness: records with a failed call in the run
    run,         \* reconciliation harness: which run of the same snapshot
    store1,      \* reconciliation harness: the store after the first run
    faults,      \* has any store call failed
    passes       \* number of passes started (bounded)

vars == <<qstr, qpc, qres, gpc, gfail, gusage, gtotal, gcount, gresult, gnamespaces,
          pc, data, idx, gauges, store, scraped, returned, writes, failed,
          run, store1, faults, passes>>

qvars == <<qstr, qpc, qres>>
gvars == <<gpc, gfail, gusage, gtotal, gcount, gresult, gnamespaces>>
ovars == <<pc, data, idx, gauges, store, scraped, returned, writes, failed,
           run, store1, faults, passes>>

-----------------------------------------------------------------------------
(* Bounds of the model *)

MaxStrLen == 3
MaxPods == 2
MaxNamespaces == 2
MaxPasses == 2
MaxQty == 2
MaxCount == 4
MaxFold == 3

-----------------------------------------------------------------------------
(* Python str helpers *)

S1(a) == <<a>>
S2(a, b) == <<a, b>>
S3(a, b, c) == <<a, b, c>>

Digits == {"0", "1", "2", "3", "4", "5", "6", "7", "8", "9"}

DigitVal(c) ==
    CASE c = "0" -> 0 [] c = "1" -> 1 [] c = "2" -> 2 [] c = "3" -> 3
      [] c = "4" -> 4 [] c = "5" -> 5 [] c = "6" -> 6 [] c = "7" -> 7
      [] c = "8" -> 8 [] c = "9" -> 9

\* str.strip(): drop leading and trailing whitespace
RECURSIVE lstrip(_)
lstrip(s) == IF Len(s) > 0 /\ s[1] = " " THEN lstrip(Tail(s)) ELSE s

RECURSIVE rstrip(_)
rstrip(s) ==
    IF Len(s) > 0 /\ s[Len(s)] = " " THEN rstrip(SubSeq(s, 1, Len(s) - 1)) ELSE s

strip(s) == rstrip(lstrip(s))

\* str.endswith(suffix)
endswith(s, suffix) ==
    /\ Len(s) >= Len(suffix)
    /\ SubSeq(s, Len(s) - Len(suffix) + 1, Len(s)) = suffix

\* s[:-n]
DropLast(s, n) == SubSeq(s, 1, Len(s) - n)

\* Decimal(text): the constructor strips surrounding whitespace and accepts a
\* decimal literal; over the characters of the model a literal is a non-empty
\* run of digits. Anything else raises decimal.InvalidOperation.
DecimalOk(text) ==
    LET t == strip(text)
    IN  Len(t) > 0 /\ \A i \in 1..Len(t) : t[i] \in Digits

RECURSIVE DigitsValue(_)
DigitsValue(t) ==
    IF Len(t) = 0 THEN 0
    ELSE 10 * DigitsValue(DropLast(t, 1)) + DigitVal(t[Len(t)])

DecimalValue(text) == DigitsValue(strip(text))

-----------------------------------------------------------------------------
(* Quantity codec *)

Returned(v) == [raised |-> FALSE, value |-> v]
Raised == [raised |-> TRUE, value |-> 0]

\* parse_cpu: no try/except around Decimal(...)
parse_cpu(cpu_str) ==
    IF Len(cpu_str) = 0 THEN Returned(0)
    ELSE LET s == strip(cpu_str)
         IN  IF endswith(s, S1("m"))
             THEN IF DecimalOk(DropLast(s, 1))
                  THEN Returned(DecimalValue(DropLast(s, 1)))
                  ELSE Raised
             ELSE Returned(0)

\* multipliers = {'Ki': 1024, 'Mi': 1024**2, 'Gi': 1024**3, 'Ti': 1024**4},
\* in the dict's order. 1024**4 is beyond TLC's integers: the strings of the
\* model carry no "G" or "T", whose entries differ in the multiplier only.
Suffixes == <<S2("K", "i"), S2("M", "i"), S2("G", "i"), S2("T", "i")>>

Multiplier(k) ==
    CASE k = 1 -> 1024
      [] k = 2 -> 1024 * 1024
      [] k = 3 -> 1024 * 1024 * 1024
      [] k = 4 -> 1024 * 1024 * 1024 * 1024

\* the for loop of parse_memory from entry k on: the first matching suffix
\* returns, a failed Decimal(...) is swallowed by the bare except
RECURSIVE parse_memory_from(_, _)
parse_memory_from(s, k) ==
    IF k > Len(Suffixes) THEN Returned(0)
    ELSE IF endswith(s, Suffixes[k])
         THEN IF DecimalOk(DropLast(s, Len(Suffixes[k])))
              THEN Returned(DecimalValue(DropLast(s, Len(Suffixes[k]))) * Multiplier(k))
              ELSE Returned(0)
         ELSE parse_memory_from(s, k + 1)

parse_memory(mem_str) ==
    IF Len(mem_str) = 0 THEN Returned(0)
    ELSE parse_memory_from(strip(mem_str), 1)

\* The quantity strings of the codec harness: every string over Chars of
\* length at most MaxStrLen
Chars == {"1", "5", "m", "K", "M", "i", "x", " "}

QuantityStrings == UNION {[1..k -> Chars] : k \in 0..MaxStrLen}

QInit ==
    /\ qstr \in QuantityStrings
    /\ qpc = "start"
    /\ qres = Returned(0)

QIdle ==
    /\ qstr = <<>>
    /\ qpc = "start"
    /\ qres = Returned(0)

CallParseCpu ==
    /\ qpc = "start"
    /\ qpc' = "cpu"
    /\ qres' = parse_cpu(qstr)
    /\ UNCHANGED qstr

CallParseMemory ==
    /\ qpc = "start"
    /\ qpc' = "mem"
    /\ qres' = parse_memory(qstr)
    /\ UNCHANGED qstr

-----------------------------------------------------------------------------
(* Exact rationals for the float values *)

RECURSIVE GCD(_, _)
GCD(a, b) == IF b = 0 THEN a ELSE GCD(b, a % b)

Abs(x) == IF x < 0 THEN -x ELSE x

Rat(n, d) ==
    LET g == GCD(Abs(n), d)
    IN  [n |-> n \div g, d |-> d \div g]

RInt(k) == [n |-> k, d |-> 1]
RSub(a, b) == Rat(a.n * b.d - b.n * a.d, a.d * b.d)
RAdd(a, b) == Rat(a.n * b.d + b.n * a.d, a.d * b.d)
RMul(a, b) == Rat(a.n * b.n, a.d * b.d)
RLe(a, b) == a.n * b.d <= b.n * a.d
RLt(a, b) == a.n * b.d < b.n * a.d
RMin(a, b) == IF RLe(a, b) THEN a ELSE b
RMax(a, b) == IF RLe(a, b) THEN b ELSE a

-----------------------------------------------------------------------------
(* Usage accumulator: get_namespace_usage and gather *)

ZeroUsage ==
    [cpu_req |-> 0, cpu_lim |-> 0, mem_req |-> 0, mem_lim |-> 0,
     pods |-> 0, pods_run |-> 0, pods_wait |-> 0, pods_fail |-> 0,
     svc |-> 0, cm |-> 0, secret |-> 0]

\* one container: `r = c.resources; if r:` then the four req.get/lim.get
\* parses in source order; a raising parse_cpu leaves what was added before
process_container(u, c) ==
    IF ~c.has_resources THEN [usage |-> u, raised |-> FALSE]
    ELSE LET a == parse_cpu(c.cpu_req)
             u1 == [u EXCEPT !.cpu_req = @ + a.value]
             b == parse_cpu(c.cpu_lim)
             u2 == [u1 EXCEPT !.cpu_lim = @ + b.value]
             u3 == [u2 EXCEPT !.mem_req = @ + parse_memory(c.mem_req).value]
             u4 == [u3 EXCEPT !.mem_lim = @ + parse_memory(c.mem_lim).value]
         IN  IF a.raised THEN [usage |-> u, raised |-> TRUE]
             ELSE IF b.raised THEN [usage |-> u1, raised |-> TRUE]
             ELSE [usage |-> u4, raised |-> FALSE]

RECURSIVE process_containers(_, _)
process_containers(u, cs) ==
    IF Len(cs) = 0 THEN [usage |-> u, raised |-> FALSE]
    ELSE LET r == process_container(u, Head(cs))
         IN  IF r.raised THEN r ELSE process_containers(r.usage, Tail(cs))

\* the phase branches, then usage['pods'] += 1, then the containers
count_pod(u, phase) ==
    LET c == IF phase = "Running" THEN [u EXCEPT !.pods_run = @ + 1]
             ELSE IF phase = "Pending" THEN [u EXCEPT !.pods_wait = @ + 1]
             ELSE IF phase = "Failed" THEN [u EXCEPT !.pods_fail = @ + 1]
             ELSE u
    IN  [c EXCEPT !.pods = @ + 1]

process_pod(u, pod) == process_containers(count_pod(u, pod.phase), pod.containers)

\* `for pod in pods.items:` inside the first try; an exception ends the loop
RECURSIVE process_pods(_, _)
process_pods(u, pods) ==
    IF Len(pods) = 0 THEN [usage |-> u, raised |-> FALSE]
    ELSE LET r == process_pod(u, Head(pods))
         IN  IF r.raised THEN r ELSE process_pods(r.usage, Tail(pods))

\* first try block: list_namespaced_pod may raise before anything is counted;
\* `except: pass` keeps usage as it stands
read_pods(u, ns) ==
    IF ns.pods_listing_fails THEN [usage |-> u, raised |-> TRUE]
    ELSE process_pods(u, ns.pods)

\* second try block: services, config maps, secrets, in this order in one try
read_objects(u, ns) ==
    IF ns.objects_fail = "svc" THEN u
    ELSE IF ns.objects_fail = "cm" THEN [u EXCEPT !.svc = ns.svc]
    ELSE IF ns.objects_fail = "secret" THEN [u EXCEPT !.svc = ns.svc, !.cm = ns.cm]
    ELSE [u EXCEPT !.svc = ns.svc, !.cm = ns.cm, !.secret = ns.secret]

get_namespace_usage(ns) == read_objects(read_pods(ZeroUsage, ns).usage, ns)

\* fold_usage with the namespace's usage taking the total's place
fold_usage_last(total, u) == [k \in DOMAIN total |-> u[k]]

\* `for k in total: total[k] += u[k]`
fold_usage(total, u) == [k \in DOMAIN total |-> total[k] + u[k]]

\* cpu_pct / mem_pct: 0 unless the limit is positive
percentage(req, lim) == IF lim > 0 THEN Rat(req * 100, lim) ELSE RInt(0)

Weight == [n |-> 3, d |-> 10]

\* health_score_of with the clamp applied before the pod penalty is taken off
health_score_clamp_first(cpu_pct, mem_pct, pods_wait, pods_fail) ==
    LET h0 == RInt(100)
        h1 == IF RLt(RInt(0), cpu_pct)
              THEN RSub(h0, RMul(RMin(cpu_pct, RInt(100)), Weight)) ELSE h0
        h2 == IF RLt(RInt(0), mem_pct)
              THEN RSub(h1, RMul(RMin(mem_pct, RInt(100)), Weight)) ELSE h1
    IN  RSub(RMax(RInt(0), RMin(RInt(100), h2)), RInt((pods_wait + pods_fail) * 10))

\* health_score of gather, statement by statement
health_score_of(cpu_pct, mem_pct, pods_wait, pods_fail) ==
    LET h0 == RInt(100)
        h1 == IF RLt(RInt(0), cpu_pct)
              THEN RSub(h0, RMul(RMin(cpu_pct, RInt(100)), Weight)) ELSE h0
        h2 == IF RLt(RInt(0), mem_pct)
              THEN RSub(h1, RMul(RMin(mem_pct, RInt(100)), Weight)) ELSE h1
        h3 == RSub(h2, RInt((pods_wait + pods_fail) * 10))
    IN  RMax(RInt(0), RMin(RInt(100), h3))

\* health_status_of with strict comparisons (> 90, > 70)
health_status_strict(score) ==
    IF RLt(RInt(90), score) THEN "healthy"
    ELSE IF RLt(RInt(70), score) THEN "warning"
    ELSE "critical"

\* 'healthy' if score >= 90 else 'warning' if score >= 70 else 'critical'
health_status_of(score) ==
    IF RLe(RInt(90), score) THEN "healthy"
    ELSE IF RLe(RInt(70), score) THEN "warning"
    ELSE "critical"

\* the dict gather returns (the pass-through 'namespaces' and 'owners' lists
\* are left out; namespace_count is len(namespaces))
gather_result(name, namespace_count, total) ==
    LET cpu_pct == percentage(total.cpu_req, total.cpu_lim)
        mem_pct == percentage(total.mem_req, total.mem_lim)
        score == health_score_of(cpu_pct, mem_pct, total.pods_wait, total.pods_fail)
    IN  [name |-> name, namespace_count |-> namespace_count,
         cpu_req |-> total.cpu_req, cpu_lim |-> total.cpu_lim,
         mem_req |-> total.mem_req, mem_lim |-> total.mem_lim,
         cpu_pct |-> cpu_pct, mem_pct |-> mem_pct,
         pods |-> total.pods, pods_run |-> total.pods_run,
         pods_wait |-> total.pods_wait, pods_fail |-> total.pods_fail,
         svc |-> total.svc, cm |-> total.cm, secret |-> total.secret,
         health_score |-> score, health_status |-> health_status_of(score)]

-----------------------------------------------------------------------------
(* What the cluster may answer for one namespace *)

Container(cr, cl, mr, ml) ==
    [has_resources |-> TRUE, cpu_req |-> cr, cpu_lim |-> cl, mem_req |-> mr, mem_lim |-> ml]

\* c.resources is None
NoResources ==
    [has_resources |-> FALSE, cpu_req |-> <<>>, cpu_lim |-> <<>>, mem_req |-> <<>>, mem_lim |-> <<>>]

Half == Container(S2("1", "m"), S2("2", "m"), S3("1", "K", "i"), S3("2", "K", "i"))
Full == Container(S2("2", "m"), S2("2", "m"), S3("2", "K", "i"), S3("2", "K", "i"))
\* limits absent: lim.get('cpu', '0')
NoLimits == Container(S2("1", "m"), S1("0"), S3("1", "K", "i"), S1("0"))
BadCpuLimit == Container(S2("1", "m"), S2("x", "m"), S3("1", "K", "i"), S3("2", "K", "i"))
BadMemory == Container(S2("1", "m"), S2("2", "m"), S3("x", "K", "i"), S3("2", "K", "i"))

PodAnswers ==
    { [phase |-> "Running", containers |-> <<Half, NoResources>>],
      [phase |-> "Pending", containers |-> <<Full>>],
      [phase |-> "Failed", containers |-> <<NoLimits>>],
      [phase |-> "Succeeded", containers |-> <<Half>>],
      [phase |-> "Running", containers |-> <<BadCpuLimit>>],
      [phase |-> "Running", containers |-> <<BadMemory>>] }

PodLists == UNION {[1..k -> PodAnswers] : k \in 0..MaxPods}

NamespaceAnswers ==
    { [pods_listing_fails |-> lf, pods |-> ps, objects_fail |-> f,
       svc |-> 1, cm |-> 2, secret |-> 1] :
        lf \in BOOLEAN, ps \in PodLists, f \in {"none", "svc", "cm", "secret"} }

NoFailure == [pods |-> FALSE, objects |-> "none"]

GInit ==
    /\ gpc = "fold"
    /\ gfail = NoFailure
    /\ gusage = ZeroUsage
    /\ gtotal = ZeroUsage
    /\ gcount = 0
    /\ gresult = gather_result(<<>>, 0, ZeroUsage)
    /\ gnamespaces = <<>>

\* one iteration of `for ns in namespaces:` of gather
FoldNamespace ==
    /\ gpc = "fold"
    /\ gcount < MaxNamespaces
    /\ \E ns \in NamespaceAnswers :
        /\ ~(ns.pods_listing_fails /\ ns.pods # <<>>)
        /\ gusage' = get_namespace_usage(ns)
        /\ gfail' = [pods |-> read_pods(ZeroUsage, ns).raised, objects |-> ns.objects_fail]
        /\ gtotal' = fold_usage(gtotal, get_namespace_usage(ns))
    /\ gcount' = gcount + 1
    /\ UNCHANGED <<gpc, gresult, gnamespaces>>

\* the usages the order harness folds: those of the namespaces that hold at
\* most one pod and whose object listings succeed
OrderUsages ==
    { get_namespace_usage(ns) :
        ns \in {a \in NamespaceAnswers :
                   /\ Len(a.pods) <= 1
                   /\ a.objects_fail = "none"
                   /\ ~(a.pods_listing_fails /\ a.pods # <<>>)} }

\* one iteration of `for ns in namespaces:` over a list known beforehand
FoldListed ==
    /\ gpc = "fold"
    /\ gcount < Len(gnamespaces)
    /\ gusage' = gnamespaces[gcount + 1]
    /\ gtotal' = fold_usage(gtotal, gnamespaces[gcount + 1])
    /\ gcount' = gcount + 1
    /\ UNCHANGED <<gpc, gfail, gresult, gnamespaces>>

\* the rest of gather once the namespaces are folded
GatherFinish ==
    /\ gpc = "fold"
    /\ gcount >= Len(gnamespaces)
    /\ gpc' = "done"
    /\ gresult' = gather_result(S1("t"), gcount, gtotal)
    /\ UNCHANGED <<gfail, gusage, gtotal, gcount, gnamespaces>>

-----------------------------------------------------------------------------
(* PrometheusMetrics *)

\* v.replace('.', '_').replace('-', '_') on a label value
sanitize(v) == [i \in 1..Len(v) |-> IF v[i] \in {".", "-"} THEN "_" ELSE v[i]]

\* label values that are fixed words, as Python strs
W_total == <<"t", "o", "t", "a", "l">>
W_running == <<"r", "u", "n", "n", "i", "n", "g">>
W_pending == <<"p", "e", "n", "d", "i", "n", "g">>
W_failed == <<"f", "a", "i", "l", "e", "d">>
W_healthy == <<"h", "e", "a", "l", "t", "h", "y">>
W_warning == <<"w", "a", "r", "n", "i", "n", "g">>
W_critical == <<"c", "r", "i", "t", "i", "c", "a", "l">>

StatusWord(status) ==
    CASE status = "healthy" -> W_healthy
      [] status = "warning" -> W_warning
      [] status = "critical" -> W_critical

\* the label keys the program uses, in sorted() order
LabelKeys == <<"state", "status", "tenant">>

\* _labels: tuple(sorted((k, sanitized v) for k, v in d.items()))
RECURSIVE labels_from(_, _)
labels_from(d, k) ==
    IF k > Len(LabelKeys) THEN <<>>
    ELSE IF LabelKeys[k] \in DOMAIN d
         THEN <<<<LabelKeys[k], sanitize(d[LabelKeys[k]])>>>> \o labels_from(d, k + 1)
         ELSE labels_from(d, k + 1)

\* labels_of without sorted(): the pairs in the order the dict literals of
\* the tenant_* helpers give them ('tenant' first)
labels_as_given(d) ==
    (IF "tenant" \in DOMAIN d THEN <<<<"tenant", sanitize(d["tenant"])>>>> ELSE <<>>)
    \o (IF "state" \in DOMAIN d THEN <<<<"state", sanitize(d["state"])>>>> ELSE <<>>)
    \o (IF "status" \in DOMAIN d THEN <<<<"status", sanitize(d["status"])>>>> ELSE <<>>)

labels_of(d) == labels_from(d, 1)

\* position of key in the dict, 0 when absent
RECURSIVE key_index(_, _, _)
key_index(g, key, i) ==
    IF i > Len(g) THEN 0
    ELSE IF g[i].key = key THEN i ELSE key_index(g, key, i + 1)

\* set: self.gauges[key] = value; a dict keeps the position of an existing
\* key and appends a new one (metric names carry no '-': name.replace is void)
metrics_set(g, name, value, labels) ==
    LET key == [name |-> name, labels |-> labels_of(labels)]
        i == key_index(g, key, 1)
    IN  IF i > 0 THEN [g EXCEPT ![i].value = value]
        ELSE Append(g, [key |-> key, value |-> value])

NoLabels == [k \in {} |-> <<>>]
TenantLabel(t) == [tenant |-> t]

\* the thirteen metrics.tenant_* calls of one iteration of update_metrics' loop,
\* as (name, value, labels) in call order; cores are millicores / 1000
tenant_series(t) ==
    << <<"tenant_observer_namespace_count", RInt(t.namespace_count), TenantLabel(t.name)>>,
       <<"tenant_observer_cpu_requested_cores", Rat(t.cpu_req, 1000), TenantLabel(t.name)>>,
       <<"tenant_observer_cpu_limit_cores", Rat(t.cpu_lim, 1000), TenantLabel(t.name)>>,
       <<"tenant_observer_memory_requested_bytes", RInt(t.mem_req), TenantLabel(t.name)>>,
       <<"tenant_observer_memory_limit_bytes", RInt(t.mem_lim), TenantLabel(t.name)>>,
       <<"tenant_observer_cpu_requested_percentage", t.cpu_pct, TenantLabel(t.name)>>,
       <<"tenant_observer_memory_requested_percentage", t.mem_pct, TenantLabel(t.name)>>,
       <<"tenant_observer_pods_count", RInt(t.pods), [tenant |-> t.name, state |-> W_total]>>,
       <<"tenant_observer_pods_count", RInt(t.pods_run), [tenant |-> t.name, state |-> W_running]>>,
       <<"tenant_observer_pods_count", RInt(t.pods_wait), [tenant |-> t.name, state |-> W_pending]>>,
       <<"tenant_observer_pods_count", RInt(t.pods_fail), [tenant |-> t.name, state |-> W_failed]>>,
       <<"tenant_observer_services_count", RInt(t.svc), TenantLabel(t.name)>>,
       <<"tenant_observer_health_score", t.health_score,
         [tenant |-> t.name, status |-> StatusWord(t.health_status)]>> >>

\* the calls of a list made one after the other (each intermediate dict is
\* bound by v before the next call is made)
RECURSIVE set_all(_, _)
set_all(g, calls) ==
    IF Len(calls) = 0 THEN g
    ELSE CHOOSE r \in { set_all(v, Tail(calls)) :
                          v \in {metrics_set(g, Head(calls)[1], Head(calls)[2], Head(calls)[3])} } : TRUE

\* sums of update_metrics' accumulators over the tenants of the pass
RECURSIVE sum_field(_, _)
sum_field(ts, f) == IF Len(ts) = 0 THEN 0 ELSE ts[1][f] + sum_field(Tail(ts), f)

RECURSIVE sum_scores(_)
sum_scores(ts) ==
    IF Len(ts) = 0 THEN RInt(0) ELSE RAdd(ts[1].health_score, sum_scores(Tail(ts)))

\* avg_health_of without the `else 100`: an empty list averages to 0
avg_health_plain(ts) ==
    IF Len(ts) = 0 THEN RInt(0)
    ELSE RMul(sum_scores(ts), [n |-> 1, d |-> Len(ts)])

\* sum(health_scores) / len(health_scores) if health_scores else 100
avg_health_of(ts) ==
    IF Len(ts) = 0 THEN RInt(100)
    ELSE RMul(sum_scores(ts), [n |-> 1, d |-> Len(ts)])

\* the six cluster-wide calls that end update_metrics
total_series(ts) ==
    << <<"tenant_observer_total_tenants", RInt(Len(ts)), NoLabels>>,
       <<"tenant_observer_total_namespaces", RInt(sum_field(ts, "namespace_count")), NoLabels>>,
       <<"tenant_observer_total_cpu_requested_cores", Rat(sum_field(ts, "cpu_req"), 1000), NoLabels>>,
       <<"tenant_observer_total_memory_requested_bytes", RInt(sum_field(ts, "mem_req")), NoLabels>>,
       <<"tenant_observer_total_pods", RInt(sum_field(ts, "pods")), NoLabels>>,
       <<"tenant_observer_cluster_health_score", avg_health_of(ts),
         [status |-> StatusWord(health_status_of(avg_health_of(ts)))]>> >>

\* generate: two header lines, one line per gauge in dict order, build_info.
\* A line f'{name}{lbl} {value}' is kept as its three parts.
generate(g) ==
    <<"# HELP tenant_observer_namespace_count Number of namespaces",
      "# TYPE tenant_observer_namespace_count gauge">>
    \o [i \in 1..Len(g) |-> <<g[i].key.name, g[i].key.labels, g[i].value>>]
    \o <<"tenant_observer_build_info{operator=\"tenant-observer\"} 1">>

\* update_metrics run alone on an empty or stale registry
RECURSIVE set_tenants(_, _)
set_tenants(g, ts) ==
    IF Len(ts) = 0 THEN g
    ELSE CHOOSE r \in { set_tenants(v, Tail(ts)) : v \in {set_all(g, tenant_series(Head(ts)))} } : TRUE

update_metrics(ts) == set_all(set_tenants(<<>>, ts), total_series(ts))

-----------------------------------------------------------------------------
(* TenantInfo records *)

\* f"{name}-info"
ti_name_of(name) == name \o <<"-", "i", "n", "f", "o">>

\* ti_data with a field that changes from one run to the next (a body that
\* carries when it was built)
ti_data_stamped(t) ==
    [name |-> ti_name_of(t.name), tenant |-> t.name,
     namespace_count |-> t.namespace_count,
     cpu_pct |-> t.cpu_pct, mem_pct |-> t.mem_pct,
     pods |-> t.pods, pods_run |-> t.pods_run,
     pods_wait |-> t.pods_wait, pods_fail |-> t.pods_fail,
     svc |-> t.svc, cm |-> t.cm, secret |-> t.secret,
     score |-> t.health_score, status |-> t.health_status,
     state |-> IF run = 2 THEN "rebuilt" ELSE t.health_status]

\* ti_data: the body built for one tenant (formatted display strings and the
\* constant fields are left out)
ti_data(t) ==
    [name |-> ti_name_of(t.name), tenant |-> t.name,
     namespace_count |-> t.namespace_count,
     cpu_pct |-> t.cpu_pct, mem_pct |-> t.mem_pct,
     pods |-> t.pods, pods_run |-> t.pods_run,
     pods_wait |-> t.pods_wait, pods_fail |-> t.pods_fail,
     svc |-> t.svc, cm |-> t.cm, secret |-> t.secret,
     score |-> t.health_score, status |-> t.health_status,
     state |-> t.health_status]

-----------------------------------------------------------------------------
(* The value aggregate() returns *)

\* n / d rounded to the nearest integer, a tie to the even one (the ties of
\* '.2f' follow the binary value of the float, which the model does not carry)
RoundDiv(n, d) ==
    LET q == n \div d
        r == n % d
    IN  IF 2 * r < d THEN q
        ELSE IF 2 * r > d THEN q + 1
        ELSE IF q % 2 = 0 THEN q ELSE q + 1

\* format_cpu on millicores: f"{float(cores):.2f} cores" from one core up, kept
\* as <<hundredths of a core, " cores">>; f"{int(cores * 1000)}m" below
format_cpu(millicores) ==
    IF millicores >= 1000 THEN <<RoundDiv(millicores, 10), " cores">>
    ELSE <<millicores, "m">>

\* format_memory on bytes: the first unit, largest first, that the value
\* reaches, with two decimals kept as hundredths of the unit; plain bytes
\* below 1024. (bytes >= 1024**4 is written bytes div 1024**3 >= 1024.)
format_memory(bytes_val) ==
    IF bytes_val \div Multiplier(3) >= 1024
    THEN <<RoundDiv(bytes_val * 100, Multiplier(4)), " Ti">>
    ELSE IF bytes_val >= Multiplier(3)
    THEN <<RoundDiv(bytes_val * 100, Multiplier(3)), " Gi">>
    ELSE IF bytes_val >= Multiplier(2)
    THEN <<RoundDiv(bytes_val * 100, Multiplier(2)), " Mi">>
    ELSE IF bytes_val >= Multiplier(1)
    THEN <<RoundDiv(bytes_val * 100, Multiplier(1)), " Ki">>
    ELSE <<bytes_val, " B">>

\* 'summary': {}
EmptySummary == [k \in {} |-> 0]

\* the dict aggregate() returns for the list `d` of gather results: the
\* fixed zero-tenant dict of the `if not tenants:` branch, or the snapshot
\* with its summary ('timestamp', the clock's reading, is left out)
aggregate_result(d) ==
    IF Len(d) = 0
    THEN [total_tenants |-> 0, tenants |-> <<>>, summary |-> EmptySummary]
    ELSE [total_tenants |-> Len(d),
          tenants |-> d,
          summary |-> [total_namespaces |-> sum_field(d, "namespace_count"),
                       total_cpu |-> format_cpu(sum_field(d, "cpu_req")),
                       total_memory |-> format_memory(sum_field(d, "mem_req")),
                       total_pods |-> sum_field(d, "pods"),
                       health_score |-> RMul(sum_scores(d), [n |-> 1, d |-> Len(d)])]]

-----------------------------------------------------------------------------
(* The cluster as the operator process sees it *)

Threads == {"kopf", "http"}

TenantA == <<"a", "-", "b">>
TenantB == <<"a", ".", "b">>
TenantNames == {TenantA, TenantB}

\* the tenant lists the API may hold, in the API's order
TenantLists == {<<>>, <<TenantA>>, <<TenantB>>, <<TenantA, TenantB>>}

\* what list_cluster_custom_object may do: return the items or raise
ListAnswers ==
    {[raised |-> TRUE, items |-> <<>>]}
    \cup {[raised |-> FALSE, items |-> ts] : ts \in TenantLists}

\* list_tenants: the items, or [] on any exception
list_tenants(answer) == IF answer.raised THEN <<>> ELSE answer.items

NamespaceOf(pods) ==
    [pods_listing_fails |-> FALSE, pods |-> pods, objects_fail |-> "none",
     svc |-> 1, cm |-> 2, secret |-> 1]

\* namespaces a tenant of the operator process may own: one pending pod
\* without limits, or two pending pods at half their limits
SampleNamespaces ==
    { NamespaceOf(<<[phase |-> "Pending", containers |-> <<NoLimits>>]>>),
      NamespaceOf(<<[phase |-> "Pending", containers |-> <<Half>>],
                    [phase |-> "Pending", containers |-> <<Half>>]>>) }

\* gather for a tenant with no namespace (or a failed get_namespaces) and for
\* a tenant with one of the sample namespaces
GatherOutcomes(name) ==
    {gather_result(name, 0, ZeroUsage)}
    \cup {gather_result(name, 1, fold_usage(ZeroUsage, get_namespace_usage(ns))) :
             ns \in SampleNamespaces}

\* every list `data` a pass can work on
Snapshots ==
    UNION { {d \in [1..Len(ts) -> UNION {GatherOutcomes(n) : n \in TenantNames}] :
                \A i \in 1..Len(ts) : d[i] \in GatherOutcomes(ts[i])} : ts \in TenantLists }

RecordNames == {ti_name_of(n) : n \in TenantNames}

NoWrites == [n \in RecordNames |-> 0]
NoStore == [n \in {} |-> <<>>]

\* put that keeps no other record: the store holds `body` alone
put_alone(st, body) == [n \in {body.name} |-> body]

\* the store with record `body` put under its name
put(st, body) ==
    [n \in DOMAIN st \cup {body.name} |-> IF n = body.name THEN body ELSE st[n]]

OInit ==
    /\ pc = [p \in Threads |-> "idle"]
    /\ data = [p \in Threads |-> <<>>]
    /\ idx = [p \in Threads |-> 1]
    /\ gauges = <<>>
    /\ store = NoStore
    /\ scraped = <<>>
    /\ returned = <<>>
    /\ writes = NoWrites
    /\ failed = {}
    /\ run = 0
    /\ store1 = NoStore
    /\ faults = FALSE
    /\ passes = 0

\* the harness bookkeeping, which the operator process leaves alone
hvars == <<writes, failed, run, store1, faults>>

-----------------------------------------------------------------------------
(* aggregate(), step by step, on thread p *)

\* a call of aggregate() begins
start_pass(p) ==
    /\ pc[p] = "idle"
    /\ passes < MaxPasses
    /\ passes' = passes + 1
    /\ pc' = [pc EXCEPT ![p] = "list"]
    /\ scraped' = <<>>
    /\ returned' = <<>>
    /\ UNCHANGED <<data, idx, gauges, store, hvars>>

\* on_tenant_event: a kopf worker thread calls aggregate()
on_tenant_event == start_pass("kopf") /\ UNCHANGED <<qvars, gvars>>

\* do_GET, path /tenants: the HTTP server thread calls aggregate()
do_GET_tenants == start_pass("http") /\ UNCHANGED <<qvars, gvars>>

\* do_GET, path /metrics: the HTTP server thread (serving one request at a
\* time) renders the registry as it stands and sends it
do_GET_metrics ==
    /\ pc["http"] = "idle"
    /\ scraped = <<>>
    /\ scraped' = generate(gauges)
    /\ returned' = <<>>
    /\ UNCHANGED <<pc, data, idx, gauges, store, hvars, passes>>
    /\ UNCHANGED <<qvars, gvars>>

\* tenants = list_tenants(), then data = [gather(t) for t in tenants]; an
\* empty or failed listing leaves data = [] (the `if not tenants:` branch
\* calls update_metrics([]) and sync_tenant_infos([]))
list_and_gather(p) ==
    /\ pc[p] = "list"
    /\ \E answer \in ListAnswers, d \in Snapshots :
        /\ Len(d) = Len(list_tenants(answer))
        /\ \A i \in 1..Len(d) : d[i].name = list_tenants(answer)[i]
        /\ data' = [data EXCEPT ![p] = d]
    /\ pc' = [pc EXCEPT ![p] = "clear"]
    /\ scraped' = <<>>
    /\ returned' = <<>>
    /\ UNCHANGED <<idx, gauges, store, hvars, passes>>
    /\ UNCHANGED <<qvars, gvars>>

\* metrics_clear without the clear(): the registry keeps its series
metrics_keep(p) ==
    /\ pc[p] = "clear"
    /\ gauges' = gauges
    /\ idx' = [idx EXCEPT ![p] = 1]
    /\ pc' = [pc EXCEPT ![p] = "set"]
    /\ scraped' = <<>>
    /\ returned' = <<>>
    /\ UNCHANGED <<data, store, hvars, passes>>
    /\ UNCHANGED <<qvars, gvars>>

\* update_metrics: metrics.clear()
metrics_clear(p) ==
    /\ pc[p] = "clear"
    /\ gauges' = <<>>
    /\ idx' = [idx EXCEPT ![p] = 1]
    /\ pc' = [pc EXCEPT ![p] = "set"]
    /\ scraped' = <<>>
    /\ returned' = <<>>
    /\ UNCHANGED <<data, store, hvars, passes>>
    /\ UNCHANGED <<qvars, gvars>>

\* update_metrics: one iteration of `for t in tenants:`
set_tenant(p) ==
    /\ pc[p] = "set"
    /\ idx[p] <= Len(data[p])
    /\ gauges' = set_all(gauges, tenant_series(data[p][idx[p]]))
    /\ idx' = [idx EXCEPT ![p] = @ + 1]
    /\ scraped' = <<>>
    /\ returned' = <<>>
    /\ UNCHANGED <<pc, data, store, hvars, passes>>
    /\ UNCHANGED <<qvars, gvars>>

\* update_metrics: the cluster-wide series after the loop
set_totals(p) ==
    /\ pc[p] = "set"
    /\ idx[p] > Len(data[p])
    /\ gauges' = set_all(gauges, total_series(data[p]))
    /\ idx' = [idx EXCEPT ![p] = 1]
    /\ pc' = [pc EXCEPT ![p] = "sync_get"]
    /\ scraped' = <<>>
    /\ returned' = <<>>
    /\ UNCHANGED <<data, store, hvars, passes>>
    /\ UNCHANGED <<qvars, gvars>>

-----------------------------------------------------------------------------
(* sync_tenant_infos, one store call per step, on thread p *)

current(p) == data[p][idx[p]]
ti_name(p) == ti_name_of(current(p).name)

\* bookkeeping of one store call on record n (per-record counts are kept by
\* the reconciliation harness, run > 0)
note_write(n) == writes' = IF run = 0 THEN writes ELSE [writes EXCEPT ![n] = @ + 1]
note_failure(n) ==
    /\ failed' = IF run = 0 THEN failed ELSE failed \cup {n}
    /\ faults' = TRUE

\* on_create_failure with the exception left to end the pass
on_create_failure_abort == "idle"

\* where the loop goes once the create of the inner try has raised:
\* logger.warning, then the next tenant
on_create_failure == "sync_get"

\* get_namespaced_custom_object: returns when the record is there; raises when
\* it is not (404) or when the call fails for any other reason. The bare
\* `except:` sends every raise to the create.
sync_get(p) ==
    /\ pc[p] = "sync_get"
    /\ idx[p] <= Len(data[p])
    /\ \/ /\ ti_name(p) \in DOMAIN store
          /\ pc' = [pc EXCEPT ![p] = "sync_patch"]
          /\ UNCHANGED <<failed, faults>>
       \/ /\ ti_name(p) \notin DOMAIN store
          /\ pc' = [pc EXCEPT ![p] = "sync_create"]
          /\ UNCHANGED <<failed, faults>>
       \/ /\ ti_name(p) \in DOMAIN store
          /\ pc' = [pc EXCEPT ![p] = "sync_create"]
          /\ note_failure(ti_name(p))
    /\ scraped' = <<>>
    /\ returned' = <<>>
    /\ UNCHANGED <<data, idx, gauges, store, writes, run, store1, passes>>
    /\ UNCHANGED <<qvars, gvars>>

\* patch_namespaced_custom_object with body=ti_data: the record takes the
\* body's fields, or the call raises and the bare `except:` goes on to create
sync_patch(p) ==
    /\ pc[p] = "sync_patch"
    /\ note_write(ti_name(p))
    /\ \/ /\ store' = put(store, ti_data(current(p)))
          /\ idx' = [idx EXCEPT ![p] = @ + 1]
          /\ pc' = [pc EXCEPT ![p] = "sync_get"]
          /\ UNCHANGED <<failed, faults>>
       \/ /\ pc' = [pc EXCEPT ![p] = "sync_create"]
          /\ note_failure(ti_name(p))
          /\ UNCHANGED <<store, idx>>
    /\ scraped' = <<>>
    /\ returned' = <<>>
    /\ UNCHANGED <<data, gauges, run, store1, passes>>
    /\ UNCHANGED <<qvars, gvars>>

\* create_namespaced_custom_object: stores the body when no record of that
\* name exists; raises on an existing name (409) or on any other failure,
\* which is logged before the loop goes on
sync_create(p) ==
    /\ pc[p] = "sync_create"
    /\ note_write(ti_name(p))
    /\ \/ /\ ti_name(p) \notin DOMAIN store
          /\ store' = put(store, ti_data(current(p)))
          /\ idx' = [idx EXCEPT ![p] = @ + 1]
          /\ pc' = [pc EXCEPT ![p] = "sync_get"]
          /\ UNCHANGED <<failed, faults>>
       \/ /\ note_failure(ti_name(p))
          /\ idx' = [idx EXCEPT ![p] = IF on_create_failure = "sync_get" THEN @ + 1 ELSE 1]
          /\ pc' = [pc EXCEPT ![p] = on_create_failure]
          /\ UNCHANGED store
    /\ scraped' = <<>>
    /\ returned' = <<>>
    /\ UNCHANGED <<data, gauges, run, store1, passes>>
    /\ UNCHANGED <<qvars, gvars>>

\* the loop of sync_tenant_infos is over and aggregate() returns its dict;
\* its locals are gone
aggregate_return(p) ==
    /\ pc[p] = "sync_get"
    /\ idx[p] > Len(data[p])
    /\ run # 1
    /\ pc' = [pc EXCEPT ![p] = "idle"]
    /\ data' = [data EXCEPT ![p] = IF run = 0 THEN <<>> ELSE @]
    /\ idx' = [idx EXCEPT ![p] = IF run = 0 THEN 1 ELSE @]
    /\ scraped' = <<>>
    /\ returned' = <<aggregate_result(data[p])>>
    /\ UNCHANGED <<gauges, store, hvars, passes>>
    /\ UNCHANGED <<qvars, gvars>>

\* reconciliation harness: sync_tenant_infos is called again with the same
\* tenants_data once its first run is over
sync_again(p) ==
    /\ pc[p] = "sync_get"
    /\ idx[p] > Len(data[p])
    /\ run = 1
    /\ run' = 2
    /\ store1' = store
    /\ idx' = [idx EXCEPT ![p] = 1]
    /\ writes' = NoWrites
    /\ failed' = {}
    /\ UNCHANGED <<pc, data, gauges, store, scraped, returned, faults, passes>>
    /\ UNCHANGED <<qvars, gvars>>

-----------------------------------------------------------------------------
(* Specifications *)

GIdle == GInit

\* the operator process: both threads, every interleaving of their steps
Init == QIdle /\ GIdle /\ OInit

Next ==
    \/ on_tenant_event
    \/ do_GET_tenants
    \/ do_GET_metrics
    \/ \E p \in Threads :
        \/ list_and_gather(p)
        \/ metrics_clear(p)
        \/ set_tenant(p)
        \/ set_totals(p)
        \/ sync_get(p)
        \/ sync_patch(p)
        \/ sync_create(p)
        \/ aggregate_return(p)

Spec == Init /\ [][Next]_vars

\* the quantity codec on every string of QuantityStrings
InitParse == QInit /\ GIdle /\ OInit

NextParse ==
    \/ CallParseCpu /\ UNCHANGED <<gvars, ovars>>
    \/ CallParseMemory /\ UNCHANGED <<gvars, ovars>>

SpecParse == InitParse /\ [][NextParse]_vars

\* gather for one tenant over every sequence of namespace answers
InitGather == QIdle /\ GInit /\ OInit

NextGather ==
    \/ FoldNamespace /\ UNCHANGED <<qvars, ovars>>
    \/ GatherFinish /\ UNCHANGED <<qvars, ovars>>

SpecGather == InitGather /\ [][NextGather]_vars

\* every store the cluster may hold: per record name, no record or the
\* record of an earlier pass
StoreStates ==
    UNION { {st \in [names -> UNION {{ti_data(r) : r \in GatherOutcomes(n)} : n \in TenantNames}] :
                \A n \in names : st[n].name = n} : names \in SUBSET RecordNames }

\* sync_tenant_infos alone, run twice on one snapshot from any store, right
\* after update_metrics has written the snapshot to the registry
InitSync ==
    /\ QIdle /\ GIdle
    /\ run = 1
    /\ \E d \in Snapshots, st \in StoreStates :
        /\ data = [p \in Threads |-> IF p = "kopf" THEN d ELSE <<>>]
        /\ gauges = update_metrics(d)
        /\ store = st
        /\ store1 = st
    /\ pc = [p \in Threads |-> IF p = "kopf" THEN "sync_get" ELSE "idle"]
    /\ idx = [p \in Threads |-> 1]
    /\ scraped = <<>>
    /\ returned = <<>>
    /\ writes = NoWrites
    /\ failed = {}
    /\ faults = FALSE
    /\ passes = MaxPasses

NextSync ==
    \/ sync_get("kopf")
    \/ sync_patch("kopf")
    \/ sync_create("kopf")
    \/ sync_again("kopf")
    \/ aggregate_return("kopf")

SpecSync == InitSync /\ [][NextSync]_vars

\* the health scorer on every tenant total of a grid: requests and limits of
\* 0..MaxQty millicores and KiB, 0..MaxCount pending and failed pods
TotalsGrid ==
    { [ZeroUsage EXCEPT !.cpu_req = cr, !.cpu_lim = cl,
                        !.mem_req = mr * Multiplier(1), !.mem_lim = ml * Multiplier(1),
                        !.pods = w + f, !.pods_wait = w, !.pods_fail = f] :
        cr \in 0..MaxQty, cl \in 0..MaxQty, mr \in 0..MaxQty, ml \in 0..MaxQty,
        w \in 0..MaxCount, f \in 0..MaxCount }

InitScore ==
    /\ QIdle /\ OInit
    /\ gpc = "fold"
    /\ gfail = NoFailure
    /\ gusage = ZeroUsage
    /\ gtotal \in TotalsGrid
    /\ gcount = 1
    /\ gresult = gather_result(<<>>, 0, ZeroUsage)
    /\ gnamespaces = <<>>

NextScore == GatherFinish /\ UNCHANGED <<qvars, ovars>>

SpecScore == InitScore /\ [][NextScore]_vars

\* gather's loop over every list of at most MaxFold namespace usages
InitOrder ==
    /\ QIdle /\ OInit
    /\ gpc = "fold"
    /\ gfail = NoFailure
    /\ gusage = ZeroUsage
    /\ gtotal = ZeroUsage
    /\ gcount = 0
    /\ gresult = gather_result(<<>>, 0, ZeroUsage)
    /\ gnamespaces \in UNION {[1..k -> OrderUsages] : k \in 0..MaxFold}

NextOrder ==
    \/ FoldListed /\ UNCHANGED <<qvars, ovars>>
    \/ GatherFinish /\ UNCHANGED <<qvars, ovars>>

SpecOrder == InitOrder /\ [][NextOrder]_vars

\* one thread's passes, one after the other, with scrapes in between
NextSerial ==
    \/ on_tenant_event
    \/ do_GET_metrics
    \/ list_and_gather("kopf")
    \/ metrics_clear("kopf")
    \/ set_tenant("kopf")
    \/ set_totals("kopf")
    \/ sync_get("kopf")
    \/ sync_patch("kopf")
    \/ sync_create("kopf")
    \/ aggregate_return("kopf")

SpecSerial == Init /\ [][NextSerial]_vars

-----------------------------------------------------------------------------
(* Claims *)

\* C1 (Spec): the body of every GET /metrics response is the rendering of the
\* empty registry or of the complete series set that update_metrics writes
\* for one snapshot; it never shows a registry that a pass has only partly
\* written.
C1_ScrapeShowsOnePass ==
    \/ scraped = <<>>
    \/ scraped = generate(<<>>)
    \/ \E d \in Snapshots : scraped = generate(update_metrics(d))

\* a thread has run at least the first step of its aggregate() call
Stepping(p) == pc[p] \notin {"idle", "list"}

\* C2 (Spec): two calls of aggregate() are never both in progress: while one
\* thread is between its list_tenants and its return, the other thread has
\* run no step of a pass.
C2_PassesNeverOverlap == ~(Stepping("kopf") /\ Stepping("http"))

\* the loop of sync_tenant_infos on thread p has ended
SyncOver(p) == pc[p] = "idle" \/ (pc[p] = "sync_get" /\ idx[p] > Len(data[p]))

\* C3 (SpecSync): whatever store calls fail, once sync_tenant_infos is over
\* every tenant of the snapshot has had a write (patch or create) issued for
\* its record, every tenant none of whose calls failed has its built record
\* in the store, and the registry is still what update_metrics wrote for the
\* snapshot.
C3_FailureIsolation ==
    /\ gauges = update_metrics(data["kopf"])
    /\ SyncOver("kopf") =>
          \A i \in 1..Len(data["kopf"]) :
              LET n == ti_name_of(data["kopf"][i].name)
              IN  /\ writes[n] >= 1
                  /\ n \notin failed =>
                        n \in DOMAIN store /\ store[n] = ti_data(data["kopf"][i])

\* C3 witness: a run over two tenants has ended, a call for one record failed
\* and the other tenant's record is stored as built
C3_Witness ==
    /\ SyncOver("kopf")
    /\ Len(data["kopf"]) = 2
    /\ Cardinality(failed) = 1
    /\ \E i \in 1..2 :
          LET n == ti_name_of(data["kopf"][i].name)
          IN  n \notin failed /\ n \in DOMAIN store /\ store[n] = ti_data(data["kopf"][i])

\* C4 (SpecSync): with no failing store call, the store after the second run
\* of sync_tenant_infos on a snapshot equals the store after the first run:
\* same record names, same fields.
C4_Idempotent ==
    (run = 2 /\ SyncOver("kopf") /\ ~faults) => store = store1

\* C4 witness: the second run over two tenants has ended without a failure,
\* with both records in the store
C4_Witness ==
    /\ run = 2 /\ SyncOver("kopf") /\ ~faults
    /\ Len(data["kopf"]) = 2
    /\ DOMAIN store = RecordNames

\* C5 (SpecSync): a create is issued only for a record that is not in the
\* store and a patch only for one that is (a step that leaves "sync_create"
\* or "sync_patch" is the call being made).
C5_UpsertSemantics ==
    [][\A p \in Threads :
          /\ (pc[p] = "sync_create" /\ pc'[p] # "sync_create") => ti_name(p) \notin DOMAIN store
          /\ (pc[p] = "sync_patch" /\ pc'[p] # "sync_patch") => ti_name(p) \in DOMAIN store]_vars

\* C6 (SpecGather): a namespace whose pod read failed, at the listing or at
\* any pod of it, contributes zero CPU, memory and pod counts; an object type
\* whose listing failed contributes a zero count.
C6_FailedReadContributesZero ==
    /\ gfail.pods =>
          /\ gusage.cpu_req = 0 /\ gusage.cpu_lim = 0
          /\ gusage.mem_req = 0 /\ gusage.mem_lim = 0
          /\ gusage.pods = 0 /\ gusage.pods_run = 0
          /\ gusage.pods_wait = 0 /\ gusage.pods_fail = 0
    /\ gfail.objects = "svc" => gusage.svc = 0
    /\ gfail.objects = "cm" => gusage.cm = 0
    /\ gfail.objects = "secret" => gusage.secret = 0

PodsAddUp(u) == u.pods = u.pods_run + u.pods_wait + u.pods_fail

\* C7 (SpecGather): pods = pods_run + pods_wait + pods_fail in the usage of
\* every namespace, in gather's running total and in gather's result.
C7_PodCountInvariant ==
    /\ PodsAddUp(gusage)
    /\ PodsAddUp(gtotal)
    /\ PodsAddUp(gresult)

\* a string parse_cpu is meant to read: a number followed by 'm'
WellFormedCpu(str) ==
    LET t == strip(str)
    IN  endswith(t, S1("m")) /\ DecimalOk(DropLast(t, 1))

\* C8 (SpecParse): parse_cpu and parse_memory return for every string, and
\* parse_cpu returns zero for every string that is not a number followed by 'm'.
C8_ParseNeverRaises ==
    /\ qpc # "start" => ~qres.raised
    /\ (qpc = "cpu" /\ ~WellFormedCpu(qstr)) => qres.value = 0

\* the score of the formula: 100 - 0.3 min(cpuPct, 100) - 0.3 min(memPct, 100)
\* - 10 (pending + failed), then clamped to [0, 100]
FormulaScore(cpuPct, memPct, pending, failedPods) ==
    LET raw == RSub(RSub(RSub(RInt(100), RMul(Weight, RMin(cpuPct, RInt(100)))),
                         RMul(Weight, RMin(memPct, RInt(100)))),
                    RInt(10 * (pending + failedPods)))
    IN  IF RLt(raw, RInt(0)) THEN RInt(0)
        ELSE IF RLt(RInt(100), raw) THEN RInt(100) ELSE raw

\* pct is req / lim * 100 when lim > 0 and 0 otherwise
IsPct(pct, req, lim) ==
    IF lim > 0 THEN pct.n * lim = 100 * req * pct.d ELSE pct.n = 0

\* C9 (SpecScore): in gather's result cpu_pct and mem_pct are request over
\* limit times 100, or 0 when the limit is 0; health_score is the formula's
\* score and lies in [0, 100].
C9_HealthScore ==
    gpc = "done" =>
        /\ IsPct(gresult.cpu_pct, gtotal.cpu_req, gtotal.cpu_lim)
        /\ IsPct(gresult.mem_pct, gtotal.mem_req, gtotal.mem_lim)
        /\ gresult.health_score =
              FormulaScore(gresult.cpu_pct, gresult.mem_pct, gtotal.pods_wait, gtotal.pods_fail)
        /\ RLe(RInt(0), gresult.health_score)
        /\ RLe(gresult.health_score, RInt(100))

\* C9 witness: a scored total with a CPU request above its limit (the
\* percentage is capped), a zero memory limit and pending and failed pods
\* whose penalty takes the raw score below zero
C9_Witness ==
    /\ gpc = "done"
    /\ gtotal.cpu_lim > 0 /\ gtotal.cpu_req > gtotal.cpu_lim
    /\ gtotal.mem_lim = 0 /\ gtotal.mem_req > 0
    /\ gtotal.pods_wait > 0 /\ gtotal.pods_fail > 0
    /\ 100 - 30 - 10 * (gtotal.pods_wait + gtotal.pods_fail) < 0
    /\ gresult.health_score = RInt(0)

\* status is the bucket of score
StatusMatches(score, status) ==
    /\ status = "healthy" <=> RLe(RInt(90), score)
    /\ status = "warning" <=> (RLe(RInt(70), score) /\ RLt(score, RInt(90)))
    /\ status = "critical" <=> RLt(score, RInt(70))

HealthSeries == {"tenant_observer_health_score", "tenant_observer_cluster_health_score"}

\* the status label of a health series (its labels sort "status" first)
StatusLabel(key) ==
    CASE key.labels[1][2] = W_healthy -> "healthy"
      [] key.labels[1][2] = W_warning -> "warning"
      [] key.labels[1][2] = W_critical -> "critical"

\* C10 (Spec): in every gather result of a pass, in every tenant and cluster
\* health series of the registry and in every stored record, the status is
\* healthy exactly for a score >= 90, warning exactly for 70 <= score < 90
\* and critical exactly for a score < 70.
C10_StatusFollowsScore ==
    /\ \A p \in Threads : \A i \in 1..Len(data[p]) :
          StatusMatches(data[p][i].health_score, data[p][i].health_status)
    /\ \A i \in 1..Len(gauges) :
          gauges[i].key.name \in HealthSeries =>
              StatusMatches(gauges[i].value, StatusLabel(gauges[i].key))
    /\ \A n \in DOMAIN store :
          /\ StatusMatches(store[n].score, store[n].status)
          /\ store[n].state = store[n].status

\* C10 witness: the registry holds a tenant series with score 90 labelled
\* healthy and a cluster series with score 70 labelled warning, and the
\* store holds a critical record
C10_Witness ==
    /\ \E i \in 1..Len(gauges) :
          /\ gauges[i].key.name = "tenant_observer_health_score"
          /\ gauges[i].value = RInt(90)
          /\ StatusLabel(gauges[i].key) = "healthy"
    /\ \E i \in 1..Len(gauges) :
          /\ gauges[i].key.name = "tenant_observer_cluster_health_score"
          /\ gauges[i].value = RInt(70)
          /\ StatusLabel(gauges[i].key) = "warning"
    /\ \E n \in DOMAIN store : store[n].status = "critical"

\* gather's loop as a whole: the usages of `us` folded into `total` in order
RECURSIVE fold_listed(_, _)
fold_listed(total, us) ==
    IF Len(us) = 0 THEN total ELSE fold_listed(fold_usage(total, Head(us)), Tail(us))

\* the list `us` in the order given by the permutation q of its indices
Reordered(us, q) == [i \in 1..Len(us) |-> us[q[i]]]

\* C11 (SpecOrder): once gather has folded the listed namespace usages, its
\* totals, and its result with percentages, score and status, are those of
\* folding the same usages in any other order.
C11_OrderIndependent ==
    gpc = "done" =>
        \A q \in Permutations(1..Len(gnamespaces)) :
            /\ fold_listed(ZeroUsage, Reordered(gnamespaces, q)) = gtotal
            /\ gather_result(S1("t"), Len(gnamespaces),
                             fold_listed(ZeroUsage, Reordered(gnamespaces, q))) = gresult

\* C11 witness: gather is done over three pairwise different usages with
\* requests, limits and pods among them
C11_Witness ==
    /\ gpc = "done"
    /\ Len(gnamespaces) = 3
    /\ gnamespaces[1] # gnamespaces[2]
    /\ gnamespaces[2] # gnamespaces[3]
    /\ gnamespaces[1] # gnamespaces[3]
    /\ gtotal.cpu_lim > 0 /\ gtotal.mem_lim > 0 /\ gtotal.pods = 3

\* the sum of field f over the first k tenants of d
RECURSIVE SumTo(_, _, _)
SumTo(d, f, k) == IF k = 0 THEN 0 ELSE SumTo(d, f, k - 1) + d[k][f]

\* the sum of the health scores of the first k tenants of d
RECURSIVE ScoreSumTo(_, _)
ScoreSumTo(d, k) == IF k = 0 THEN RInt(0) ELSE RAdd(ScoreSumTo(d, k - 1), d[k].health_score)

\* m is the arithmetic mean of the tenant scores of d, or 100 for no tenant
IsMeanScore(m, d) ==
    IF Len(d) = 0 THEN m = RInt(100)
    ELSE RMul(m, RInt(Len(d))) = ScoreSumTo(d, Len(d))

\* registry g holds exactly one series of that name and its value is v
SeriesIs(g, name, v) ==
    /\ Cardinality({i \in 1..Len(g) : g[i].key.name = name}) = 1
    /\ \A i \in 1..Len(g) : g[i].key.name = name => g[i].value = v

TotalIs(name, v) == SeriesIs(gauges, name, v)

\* C12 (SpecSync): for the snapshot of the pass, the registry's cluster totals
\* are the sums over the tenants (CPU requested, memory requested, pods),
\* total_tenants is the number of tenants and the cluster health score is the
\* mean of the tenant scores, 100 for no tenant; and the dict aggregate()
\* returns carries the same: total_tenants, the sums (CPU and memory as
\* format_cpu / format_memory render them) and that health score.
C12_ClusterRollup ==
    /\ LET d == data["kopf"]
       IN  /\ TotalIs("tenant_observer_total_tenants", RInt(Len(d)))
           /\ TotalIs("tenant_observer_total_cpu_requested_cores",
                      Rat(SumTo(d, "cpu_req", Len(d)), 1000))
           /\ TotalIs("tenant_observer_total_memory_requested_bytes",
                      RInt(SumTo(d, "mem_req", Len(d))))
           /\ TotalIs("tenant_observer_total_pods", RInt(SumTo(d, "pods", Len(d))))
           /\ \E i \in 1..Len(gauges) :
                 /\ gauges[i].key.name = "tenant_observer_cluster_health_score"
                 /\ IsMeanScore(gauges[i].value, d)
    /\ returned # <<>> =>
          LET r == returned[1]
              d == returned[1].tenants
          IN  /\ r.total_tenants = Len(d)
              /\ "health_score" \in DOMAIN r.summary
              /\ IsMeanScore(r.summary.health_score, d)
              /\ r.summary.total_cpu = format_cpu(SumTo(d, "cpu_req", Len(d)))
              /\ r.summary.total_memory = format_memory(SumTo(d, "mem_req", Len(d)))
              /\ r.summary.total_pods = SumTo(d, "pods", Len(d))

\* update_metrics of thread p's pass is over and the pass has not returned
MetricsDone(p) == pc[p] \in {"sync_get", "sync_patch", "sync_create"}

\* the place of a label key in sorted order
KeyRank(k) == CASE k = "state" -> 1 [] k = "status" -> 2 [] k = "tenant" -> 3

\* the gauge lines of a rendered text: all but the two headers and build_info
GaugeLines(text) == {text[i] : i \in 3..(Len(text) - 1)}

\* C13 (SpecSerial): a rendered text is the rendering of the registry as it
\* stands (a second render of the unchanged registry is the same text); the
\* text rendered after update_metrics of a pass is the one text that the
\* pass's tenant data determines, whatever the passes before it left in the
\* registry; and in every rendered line the labels are in ascending order of
\* their keys.
C13_RenderDeterminism ==
    scraped # <<>> =>
        /\ scraped = generate(gauges)
        /\ MetricsDone("kopf") => scraped = generate(update_metrics(data["kopf"]))
        /\ \A line \in GaugeLines(scraped) :
              \A i \in 1..Len(line[2]), j \in 1..Len(line[2]) :
                  i < j => KeyRank(line[2][i][1]) < KeyRank(line[2][j][1])

\* C13 witness: the registry written by the second pass, over two tenants,
\* has been rendered, with lines of two labels in it
C13_Witness ==
    /\ scraped # <<>>
    /\ passes = 2
    /\ MetricsDone("kopf")
    /\ Len(data["kopf"]) = 2
    /\ \E line \in GaugeLines(scraped) : Len(line[2]) = 2

\* C14 (SpecSync): within one run of sync_tenant_infos at most one write call
\* (patch or create) is issued for each record.
C14_SingleWriteAttempt == \A n \in RecordNames : writes[n] <= 1

\* the names of the tenants of the list d of gather results
NamesOf(d) == {d[i].name : i \in 1..Len(d)}

\* C15 (SpecSerial): no step of a pass takes a record out of the store, and a
\* step changes a record only if it is the record <tenant>-info of a tenant
\* of the running pass: the record of a tenant the pass does not see (a
\* zero-tenant pass sees none) stays, with its content.
C15_UpsertOnly ==
    [][\A n \in DOMAIN store :
          /\ n \in DOMAIN store'
          /\ store'[n] # store[n] =>
                \E t \in NamesOf(data["kopf"]) : ti_name_of(t) = n]_vars

\* C15 witness: the second pass, which saw no tenant, has ended its
\* reconciliation and the records of both tenants of the first pass are in
\* the store
C15_Witness ==
    /\ passes = 2
    /\ SyncOver("kopf") /\ pc["kopf"] = "sync_get"
    /\ data["kopf"] = <<>>
    /\ DOMAIN store = RecordNames

\* thread p is in a pass that saw no tenant
ZeroPass(p) ==
    /\ pc[p] \in {"clear", "set", "sync_get", "sync_patch", "sync_create"}
    /\ data[p] = <<>>

\* the value of label k of a series key, <<>> when the key has no such label
LabelValue(key, k) ==
    LET at == {j \in 1..Len(key.labels) : key.labels[j][1] = k}
    IN  IF at = {} THEN <<>> ELSE key.labels[CHOOSE j \in at : TRUE][2]

\* registry g is that of a zero-tenant snapshot
ZeroTenantRegistry(g) ==
    /\ \A i \in 1..Len(g) : LabelValue(g[i].key, "tenant") = <<>>
    /\ SeriesIs(g, "tenant_observer_total_tenants", RInt(0))
    /\ SeriesIs(g, "tenant_observer_cluster_health_score", RInt(100))
    /\ \A i \in 1..Len(g) :
          g[i].key.name = "tenant_observer_cluster_health_score" =>
              LabelValue(g[i].key, "status") = W_healthy

\* C16 (SpecSerial): in a pass whose tenant listing is empty or failed, no
\* step writes a record or reaches a store write; the step that ends
\* update_metrics leaves a registry with no per-tenant series, total_tenants
\* 0 and cluster health 100, healthy; and the step that returns hands back
\* total_tenants 0 and an empty tenant list.
C16_ZeroTenants ==
    [][ZeroPass("kopf") =>
          /\ store' = store
          /\ pc'["kopf"] \notin {"sync_patch", "sync_create"}
          /\ (pc["kopf"] = "set" /\ pc'["kopf"] = "sync_get") => ZeroTenantRegistry(gauges')
          /\ (pc["kopf"] = "sync_get" /\ pc'["kopf"] = "idle") =>
                /\ Len(returned') = 1
                /\ returned'[1].total_tenants = 0
                /\ returned'[1].tenants = <<>>]_vars

\* C16 witness: a zero-tenant pass that followed a pass over two tenants has
\* returned, leaving the zero-tenant registry
C16_Witness ==
    /\ passes = 2
    /\ pc["kopf"] = "idle"
    /\ returned # <<>> /\ returned[1].total_tenants = 0
    /\ DOMAIN store = RecordNames
    /\ ZeroTenantRegistry(gauges)

\* C17 (Spec): when no pass is running, at least one has run and no store
\* call has failed, every tenant health series of the registry has a stored
\* record of a tenant of that label with the same score and status.
C17_OneSnapshot ==
    ((\A p \in Threads : pc[p] = "idle") /\ passes > 0 /\ ~faults) =>
        \A i \in 1..Len(gauges) :
            gauges[i].key.name = "tenant_observer_health_score" =>
                \E n \in DOMAIN store :
                    /\ sanitize(store[n].tenant) = LabelValue(gauges[i].key, "tenant")
                    /\ store[n].score = gauges[i].value
                    /\ StatusWord(store[n].status) = LabelValue(gauges[i].key, "status")

\* the tenant health series of the registry that carry tenant label l
HealthSeriesOf(l) ==
    {i \in 1..Len(gauges) :
        /\ gauges[i].key.name = "tenant_observer_health_score"
        /\ LabelValue(gauges[i].key, "tenant") = l}

\* C18 (SpecSerial): once update_metrics of a pass is over, whatever passes
\* ran before it, the registry is exactly what the pass's tenant data gives
\* on an empty registry; every series with a tenant label is labelled with a
\* tenant of the pass; and a tenant label carries no more health_score
\* series than the pass has tenants of that label (one for a tenant whose
\* label is its own).
C18_WholesaleReplacement ==
    MetricsDone("kopf") =>
        LET d == data["kopf"]
        IN  /\ gauges = update_metrics(d)
            /\ \A i \in 1..Len(gauges) :
                  LabelValue(gauges[i].key, "tenant") # <<>> =>
                      \E t \in NamesOf(d) : sanitize(t) = LabelValue(gauges[i].key, "tenant")
            /\ \A t \in NamesOf(d) :
                  /\ Cardinality(HealthSeriesOf(sanitize(t))) >= 1
                  /\ Cardinality(HealthSeriesOf(sanitize(t)))
                        <= Cardinality({u \in NamesOf(d) : sanitize(u) = sanitize(t)})

\* C18 witness: update_metrics of the second pass is over; the store still
\* holds, from the first pass, the record of a tenant the second pass does
\* not see and a record of its own tenant with another status
C18_Witness ==
    /\ passes = 2
    /\ pc["kopf"] = "sync_get" /\ idx["kopf"] = 1
    /\ Len(data["kopf"]) = 1
    /\ \E n \in DOMAIN store : store[n].tenant \notin NamesOf(data["kopf"])
    /\ \E n \in DOMAIN store :
          /\ store[n].tenant = data["kopf"][1].name
          /\ store[n].status # data["kopf"][1].health_status

\* the per-tenant metrics and the number of series each holds per tenant
PerTenantSeries ==
    [m \in {"tenant_observer_namespace_count", "tenant_observer_cpu_requested_cores",
             "tenant_observer_cpu_limit_cores", "tenant_observer_memory_requested_bytes",
             "tenant_observer_memory_limit_bytes", "tenant_observer_cpu_requested_percentage",
             "tenant_observer_memory_requested_percentage", "tenant_observer_pods_count",
             "tenant_observer_services_count", "tenant_observer_health_score"}
        |-> IF m = "tenant_observer_pods_count" THEN 4 ELSE 1]

\* C19 (SpecSerial): once update_metrics of a pass over n tenants (their
\* names pairwise distinct) is over, the registry holds n separate sets of
\* series for every per-tenant metric.
C19_DistinctSeries ==
    MetricsDone("kopf") =>
        \A m \in DOMAIN PerTenantSeries :
            Cardinality({i \in 1..Len(gauges) : gauges[i].key.name = m})
                = PerTenantSeries[m] * Cardinality(NamesOf(data["kopf"]))

=============================================================================
